---- MODULE Spec2Model ----
(***************************************************************************)
(* Model of BACKEND/src/controller/ai.controller.js: the getReview request *)
(* handler.  Each request is one invocation of the async function; it runs *)
(* synchronously up to `await aiService(code)`, is suspended while the     *)
(* promise is pending, and is resumed by the event loop once the promise   *)
(* has settled.  Several invocations may be in flight at once.             *)
(*                                                                         *)
(* JavaScript values are records [type, val]; `val` is always a string so  *)
(* that values of different JavaScript types stay comparable.              *)
(***************************************************************************)
EXTENDS Naturals, Sequences, FiniteSets

\* Number of requests that may be in flight together.
NumRequests == 3

Requests == 1..NumRequests

-----------------------------------------------------------------------------
\* JavaScript values

Undefined == [type |-> "undefined", val |-> ""]
Null      == [type |-> "null", val |-> ""]
Str(s)    == [type |-> "string", val |-> s]
Num(s)    == [type |-> "number", val |-> s]
Bool(s)   == [type |-> "boolean", val |-> s]
\* An Error object (Error, TypeError, ...) carrying `message`.
Err(m)    == [type |-> "error", val |-> m]

\* A request body that is an object: {code: c}; {} is ObjBody(Undefined).
ObjBody(c) == [type |-> "object", code |-> c]
\* req.body when no body parser produced an object.
NoBody(v)  == [type |-> v.type]

\* The values of `code` the requests carry.
FalsyCodes  == {Undefined, Null, Str(""), Num("0"), Bool("false")}
TruthyCodes == {Str("function sum(){return a+b;}"), Str(" ")}
Codes       == FalsyCodes \cup TruthyCodes
Bodies      == {NoBody(Undefined), NoBody(Null)} \cup {ObjBody(c) : c \in Codes}

\* What the promise returned by aiService settles to.
Texts      == {Str(" Looks good.\n"), Str("")}
Reasons    == {Err("quota exceeded"), Err("fetch failed"), Str("boom"), Undefined}
Pending    == [state |-> "pending", value |-> Undefined]
NoPromise  == [state |-> "none", value |-> Undefined]
Fulfilled(t) == [state |-> "fulfilled", value |-> t]
Rejected(e)  == [state |-> "rejected", value |-> e]
Outcomes   == {Fulfilled(t) : t \in Texts} \cup {Rejected(e) : e \in Reasons}

\* How the response object behaves: Express sends a string body without
\* throwing; a response whose headers were already sent throws on every
\* send; "throwsOnce" throws on the first send only.
ExpressRes == {"express"}
AnyRes     == {"express", "throwsOnce", "throwsAlways"}

PromptRequired == Str("Prompt is required")
GenericFailure == Str("An error occurred while processing your request.")

-----------------------------------------------------------------------------
VARIABLES
    pc,       \* pc[r]: "idle" | "await" | "settled" | "done" | "threw"
    body,     \* body[r]: req.body
    resKind,  \* resKind[r]: behaviour of the res object
    promise,  \* promise[r]: the promise aiService returned to request r
    calls,    \* calls[r]: arguments of the aiService calls made for r
    sent,     \* sent[r]: res.status(s).send(b) calls made for r, in order
    logs      \* logs[r]: console.error lines written for r

vars == <<pc, body, resKind, promise, calls, sent, logs>>

Terminated == {"done", "threw"}

\* ECMAScript ToBoolean, as `!code` applies it.  (ToBooleanNullish is the
\* variant `code == null`, which lets "", 0 and false through.)
ToBooleanNullish(v) == v.type \notin {"undefined", "null"}
ToBoolean(v) ==
    CASE v.type \in {"undefined", "null"} -> FALSE
      [] v.type = "boolean" -> v.val = "true"
      [] v.type = "number"  -> v.val \notin {"0", "-0", "NaN"}
      [] v.type = "string"  -> v.val /= ""
      [] OTHER -> TRUE

\* Property access on undefined or null throws a TypeError.
Nullish(v) == v.type \in {"undefined", "null"}

\* error.message
Message(error) == IF error.type = "error" THEN Str(error.val) ELSE Undefined

\* The TypeError raised by reading req.body.code when req.body is nullish.
BodyTypeError(b) ==
    Err("Cannot read properties of " \o b.type \o " (reading 'code')")

\* One res.status(status).send(b) call.
Response(status, b) == [status |-> status, body |-> b, ok |-> TRUE]
SendThrows(kind, n) ==
    \/ kind = "throwsAlways"
    \/ kind = "throwsOnce" /\ n = 1
Send(kind, s, status, b) ==
    LET threw == SendThrows(kind, Len(s) + 1)
    IN  [sent  |-> Append(s, [status |-> status, body |-> b, ok |-> ~threw]),
         threw |-> threw]

\* The local state of one invocation of getReview.
Frame(r) == [pc |-> pc[r], calls |-> calls[r], sent |-> sent[r], logs |-> logs[r]]

\* catch (error) { console.error(..., error.message); res.status(500).send(...) }
CatchBlock(kind, f, error) ==
    IF Nullish(error)
    THEN [f EXCEPT !.pc = "threw"]
    ELSE LET a == Send(kind, f.sent, 500, GenericFailure)
         IN  [f EXCEPT !.pc   = IF a.threw THEN "threw" ELSE "done",
                       !.logs = Append(f.logs, Message(error)),
                       !.sent = a.sent]

\* Variant of Enter reading `req.body?.code`: a missing body is answered 400.
EnterOptionalChaining(kind, f, b) ==
    IF Nullish(b) \/ ~ToBoolean(b.code)
    THEN [f EXCEPT !.pc = "done",
                   !.sent = Send(kind, f.sent, 400, PromptRequired).sent]
    ELSE [f EXCEPT !.pc = "await", !.calls = Append(f.calls, b.code)]

\* The handler from its entry to the await (or to its return).
Enter(kind, f, b) ==
    IF Nullish(b)
    THEN CatchBlock(kind, f, BodyTypeError(b))
    ELSE IF ~ToBoolean(b.code)
    THEN LET a == Send(kind, f.sent, 400, PromptRequired)
         IN  IF a.threw
             THEN CatchBlock(kind, [f EXCEPT !.sent = a.sent], Err("send failed"))
             ELSE [f EXCEPT !.pc = "done", !.sent = a.sent]
    ELSE [f EXCEPT !.pc = "await", !.calls = Append(f.calls, b.code)]

\* Variant of Continue that calls aiService once more after a rejection.
ContinueRetry(kind, f, p) ==
    IF p.state = "fulfilled"
    THEN [f EXCEPT !.pc = "done",
                   !.sent = Send(kind, f.sent, 200, p.value).sent]
    ELSE CatchBlock(kind, [f EXCEPT !.calls = Append(f.calls, f.calls[1])],
                    p.value)

\* Variant of Continue that answers res.status(200).json({review: response}).
ContinueJson(kind, f, p) ==
    IF p.state = "fulfilled"
    THEN [f EXCEPT !.pc = "done",
                   !.sent = Send(kind, f.sent, 200,
                                 [type |-> "json", val |-> p.value.val]).sent]
    ELSE CatchBlock(kind, f, p.value)

\* The handler from the settled await to its return.
Continue(kind, f, p) ==
    IF p.state = "fulfilled"
    THEN LET a == Send(kind, f.sent, 200, p.value)
         IN  IF a.threw
             THEN CatchBlock(kind, [f EXCEPT !.sent = a.sent], Err("send failed"))
             ELSE [f EXCEPT !.pc = "done", !.sent = a.sent]
    ELSE CatchBlock(kind, f, p.value)

\* Variant of Awaited in which the result is kept in a module-level variable
\* shared by all invocations: a resumed invocation sees the result of
\* whichever settled call was stored there.
AwaitedShared(r) == promise[CHOOSE q \in Requests : pc[q] = "settled"]

\* The value the await of invocation r yields.
Awaited(r) == promise[r]

Store(r, f) ==
    /\ pc'    = [pc EXCEPT ![r] = f.pc]
    /\ calls' = [calls EXCEPT ![r] = f.calls]
    /\ sent'  = [sent EXCEPT ![r] = f.sent]
    /\ logs'  = [logs EXCEPT ![r] = f.logs]

Init ==
    /\ pc      = [r \in Requests |-> "idle"]
    /\ body    = [r \in Requests |-> NoBody(Undefined)]
    /\ resKind = [r \in Requests |-> "express"]
    /\ promise = [r \in Requests |-> NoPromise]
    /\ calls   = [r \in Requests |-> <<>>]
    /\ sent    = [r \in Requests |-> <<>>]
    /\ logs    = [r \in Requests |-> <<>>]

Dispatch(r, b, kind) ==
    /\ pc[r] = "idle"
    /\ body'    = [body EXCEPT ![r] = b]
    /\ resKind' = [resKind EXCEPT ![r] = kind]
    /\ LET f == Enter(kind, Frame(r), b)
       IN  /\ Store(r, f)
           /\ promise' = [promise EXCEPT ![r] =
                             IF f.pc = "await" THEN Pending ELSE @]

\* A request arrives and getReview runs up to its await or return.
getReview(r) == \E b \in Bodies, kind \in ExpressRes : Dispatch(r, b, kind)

\* The same, with a response object whose send may throw.
getReviewAnyRes(r) == \E b \in Bodies, kind \in AnyRes : Dispatch(r, b, kind)

\* The promise aiService returned settles.
aiServiceSettles(r) ==
    /\ pc[r] = "await"
    /\ \E o \in Outcomes : promise' = [promise EXCEPT ![r] = o]
    /\ pc' = [pc EXCEPT ![r] = "settled"]
    /\ UNCHANGED <<body, resKind, calls, sent, logs>>

\* The event loop resumes getReview after the await.
resume(r) ==
    /\ pc[r] = "settled"
    /\ Store(r, Continue(resKind[r], Frame(r), Awaited(r)))
    /\ UNCHANGED <<body, resKind, promise>>

Next ==
    \E r \in Requests :
        \/ getReview(r)
        \/ aiServiceSettles(r)
        \/ resume(r)

NextAnyRes ==
    \E r \in Requests :
        \/ getReviewAnyRes(r)
        \/ aiServiceSettles(r)
        \/ resume(r)

Spec == Init /\ [][Next]_vars

SpecAnyRes == Init /\ [][NextAnyRes]_vars

TypeOK ==
    /\ pc \in [Requests -> {"idle", "await", "settled", "done", "threw"}]
    /\ body \in [Requests -> Bodies]
    /\ resKind \in [Requests -> AnyRes]
    /\ \A r \in Requests : promise[r] \in Outcomes \cup {Pending, NoPromise}

-----------------------------------------------------------------------------
\* Properties of getReview

HasObjectBody(r) == pc[r] /= "idle" /\ body[r].type = "object"
HasNoBody(r)     == pc[r] /= "idle" /\ body[r].type /= "object"
CallFailed(r)    == promise[r].state = "rejected"
CallResolved(r)  == promise[r].state = "fulfilled"

\* C1: a request whose `code` is absent, null, "" or otherwise falsy is
\* answered 400 "Prompt is required", and aiService is never called for it.
C1_FalsyCodeIs400 ==
    \A r \in Requests :
        HasObjectBody(r) /\ body[r].code \in FalsyCodes =>
            /\ pc[r] = "done"
            /\ sent[r] = <<Response(400, PromptRequired)>>
            /\ calls[r] = <<>>
            /\ promise[r] = NoPromise

C1_Witness ==
    \E r \in Requests :
        /\ pc[r] = "done"
        /\ body[r] = ObjBody(Str(""))
        /\ sent[r] = <<Response(400, PromptRequired)>>

\* C2: whenever the aiService call of a request has failed, with whatever
\* value, the finished request has been answered 500 with the fixed generic
\* message.
C2_AnyFailureIs500 ==
    \A r \in Requests :
        pc[r] \in Terminated /\ CallFailed(r) =>
            sent[r] = <<Response(500, GenericFailure)>>

\* C3: a request with a non-empty `code` makes exactly one aiService call,
\* with that very value, and never a second one, not even after a failure.
C3_ExactlyOneCall ==
    \A r \in Requests :
        HasObjectBody(r) /\ body[r].code \in TruthyCodes =>
            calls[r] = <<body[r].code>>

C3_Witness ==
    \E r \in Requests :
        /\ pc[r] = "done"
        /\ CallFailed(r)
        /\ body[r] = ObjBody(Str(" "))
        /\ calls[r] = <<Str(" ")>>

\* C4: when the aiService call resolved with text T the request is answered
\* 200 with body exactly T, and nothing is sent for a request with a
\* non-empty `code` before its call has settled.
C4_SuccessIs200WithText ==
    \A r \in Requests :
        /\ pc[r] \in Terminated /\ CallResolved(r) =>
               /\ pc[r] = "done"
               /\ sent[r] = <<Response(200, promise[r].value)>>
        /\ pc[r] \in {"idle", "await", "settled"} => sent[r] = <<>>
        /\ \A i \in 1..Len(sent[r]) :
               sent[r][i].status = 200 => CallResolved(r)

C4_Witness ==
    \E r \in Requests :
        /\ pc[r] = "done"
        /\ promise[r] = Fulfilled(Str(" Looks good.\n"))
        /\ sent[r] = <<Response(200, Str(" Looks good.\n"))>>

\* C5: two finished requests that differ only in the error value their
\* aiService call raised have been sent the same status and body, and every
\* body sent on an error path is one of the two fixed messages.
C5_ResponseIndependentOfError ==
    /\ \A r, q \in Requests :
           /\ pc[r] \in Terminated /\ pc[q] \in Terminated
           /\ CallFailed(r) /\ CallFailed(q)
           /\ body[r] = body[q]
           => sent[r] = sent[q]
    /\ \A r \in Requests : \A i \in 1..Len(sent[r]) :
           sent[r][i].status /= 200 =>
               sent[r][i].body \in {PromptRequired, GenericFailure}

\* C6: a finished request whose aiService call failed has written exactly
\* one log line; a request answered 200 or 400 has written none.
C6_LogOnlyOnFailure ==
    \A r \in Requests :
        pc[r] \in Terminated =>
            /\ CallFailed(r) => Len(logs[r]) = 1
            /\ (\E i \in 1..Len(sent[r]) : sent[r][i].status \in {200, 400})
                   => logs[r] = <<>>

\* C7: whatever the interleaving, what a finished request was sent (and how
\* its handler ended) is fixed by its own body and the outcome of its own
\* aiService call: two requests equal in these were answered alike, whatever
\* the other requests in flight carried or received.
C7_RequestsIndependent ==
    \A r, q \in Requests :
        /\ pc[r] \in Terminated /\ pc[q] \in Terminated
        /\ body[r] = body[q]
        /\ promise[r] = promise[q]
        => /\ sent[r] = sent[q]
           /\ pc[r] = pc[q]
           /\ logs[r] = logs[q]
           /\ calls[r] = calls[q]

\* Two requests with the same input and outcome have finished while a third,
\* whose call settled differently, is still waiting to be resumed.
C7_Witness ==
    \E r, q, o \in Requests :
        /\ r /= q /\ r /= o /\ q /= o
        /\ pc[r] = "done" /\ pc[q] = "done"
        /\ body[r] = body[q] /\ promise[r] = promise[q]
        /\ CallResolved(r)
        /\ pc[o] = "settled"
        /\ promise[o] /= promise[r]

\* C8: once the handler of a request has run to its end (its aiService call,
\* if any, having settled), a response has been sent for the request.
C8_EveryRequestAnswered ==
    \A r \in Requests :
        pc[r] \in Terminated => \E i \in 1..Len(sent[r]) : sent[r][i].ok

\* C9: the handler calls res.status(..).send(..) at most once per request,
\* also when the 400 or 200 send inside the try block throws.
C9_AtMostOneSend ==
    \A r \in Requests : Len(sent[r]) <= 1

\* C10: a request without a body object is answered 500 with the generic
\* message (not 400), writes one log line and never calls aiService.
C10_NoBodyIs500 ==
    \A r \in Requests :
        HasNoBody(r) =>
            /\ pc[r] = "done"
            /\ sent[r] = <<Response(500, GenericFailure)>>
            /\ Len(logs[r]) = 1
            /\ calls[r] = <<>>
            /\ promise[r] = NoPromise

C10_Witness ==
    \E r \in Requests :
        /\ pc[r] = "done"
        /\ body[r] = NoBody(Undefined)
        /\ sent[r] = <<Response(500, GenericFailure)>>
        /\ logs[r] = <<Str("Cannot read properties of undefined (reading 'code')")>>
====
